---- MODULE Spec2Model ----
(***************************************************************************)
(* Model of datadog_enum.py: credential resolution, the HTTP probe         *)
(* primitive test_endpoint, the section reporters and the orchestration    *)
(* in main().  One step of the model is one probe of the catalog together  *)
(* with the reporter code that runs on its result, up to the next probe.   *)
(* The remote API is the environment: every reply it can give to a probe   *)
(* (a status code with a body, or a transport exception) is drawn from     *)
(* Replies.                                                                *)
(***************************************************************************)
EXTENDS Integers, Sequences, FiniteSets, TLC

\* Largest collection the remote API returns in one body.
MaxItems == 12
\* Largest collection whose items do not have the shape the reporters expect.
MaxBadItems == 1

VARIABLES
    environ,    \* os.environ: DD_API_KEY, DD_APP_KEY ("" when unset)
    argv,       \* parsed command line: api_key, app_key
    API_KEY,    \* module global
    APP_KEY,    \* module global
    pc,         \* "main" (before argument handling), "run", "exited"
    next,       \* index in Catalog of the next probe to issue
    invoked,    \* names of the section reporters entered so far, in order
    reqLog,     \* names of the probes whose HTTP request was sent, in order
    lastCall,   \* the last call of test_endpoint: its inputs and its result
    out,        \* lines printed by the caller after the last call returned
    valid,      \* what validate_api_key got from test_endpoint
    exitCode,   \* process exit status, -1 while running
    crashed     \* TRUE when the process ended by an uncaught exception

vars == <<environ, argv, API_KEY, APP_KEY, pc, next, invoked,
          reqLog, lastCall, out, valid, exitCode, crashed>>

Min(a, b) == IF a < b THEN a ELSE b

-----------------------------------------------------------------------------
(* Command line and environment *)

\* argparse gives None for a positional argument (nargs="?") that is not given.
NoArg == "<None>"

ArgApiKeys == {NoArg, "", "argapi"}
ArgAppKeys == {NoArg, "", "argapp"}
EnvApiKeys == {"", "envapi"}
EnvAppKeys == {"", "envapp"}
\* Python truth value of an optional string: None and "" are false.
StrTruthy(s) == s # NoArg /\ s # ""

-----------------------------------------------------------------------------
(* JSON values, as far as the reporters look into them.                    *)
(*   type  : "dict", "list", "number", "None"                              *)
(*   keyed : for a dict, what it holds under the key the reporter reads:   *)
(*           "none" (the dict is empty), "other" (only other keys),        *)
(*           "list", "dict", "number" or "null" (the value under the key)  *)
(*   len   : length of the list (the list under the key, for a dict)       *)
(*   item  : the items of that list: "dict" (objects of the expected       *)
(*           shape), "badattrs" (objects whose nested 'attributes'/'apps'  *)
(*           value is a number), "scalar" (strings)                        *)

Val(t, k, n, i) == [type |-> t, keyed |-> k, len |-> n, item |-> i]

NoneData  == Val("None", "na", 0, "na")
EmptyDict == Val("dict", "none", 0, "na")
EmptyList == Val("list", "na", 0, "na")

BadItemKinds == {"badattrs", "scalar"}

Lists(k) ==
    {Val(IF k = "na" THEN "list" ELSE "dict", k, 0, "na")}
    \cup {Val(IF k = "na" THEN "list" ELSE "dict", k, n, "dict") :
             n \in 1..MaxItems}
    \cup {Val(IF k = "na" THEN "list" ELSE "dict", k, n, i) :
             n \in 1..MaxBadItems, i \in BadItemKinds}

JsonValues ==
    {NoneData, EmptyDict, Val("number", "na", 0, "na")}
    \cup {Val("dict", k, 0, "na") : k \in {"other", "number", "null"}}
    \cup {Val("dict", "dict", 1, "na")}
    \cup Lists("list")
    \cup Lists("na")

\* bool(data) in Python
Truthy(d) ==
    CASE d.type = "None"   -> FALSE
      [] d.type = "dict"   -> d.keyed # "none"
      [] d.type = "list"   -> d.len > 0
      [] OTHER             -> TRUE

\* data.get(key, default) for a dict data
DictGet(d, default) ==
    CASE d.keyed = "list"   -> Val("list", "na", d.len, d.item)
      [] d.keyed = "dict"   -> Val("dict", "other", d.len, "na")
      [] d.keyed = "number" -> Val("number", "na", 0, "na")
      [] d.keyed = "null"   -> NoneData
      [] OTHER              -> default

\* len(v) is defined
Sized(v) == v.type \in {"dict", "list"}

-----------------------------------------------------------------------------
(* Printed lines: the print_* function used, what the line says, and the   *)
(* number it carries (a status code, a count, an item's position).         *)

Line(fn, k, n) == [fn |-> fn, k |-> k, n |-> n]

print_header(k)     == Line("header", k, 0)
print_success(k)    == Line("success", k, 0)
print_error(k, n)   == Line("error", k, n)
print_info(k, n)    == Line("info", k, n)
print_warning(k, n) == Line("warning", k, n)

-----------------------------------------------------------------------------
(* The probe catalog: every call of test_endpoint in the program, in the   *)
(* order main() reaches it.  desc: the call passes a description.  first:  *)
(* the probe is the first one of its section reporter.  window: seconds    *)
(* subtracted from now() in the path's time parameter (0: no parameter).   *)

P(name, section, endpoint, desc, first, window) ==
    [name |-> name, section |-> section, method |-> "GET",
     endpoint |-> endpoint, desc |-> desc, first |-> first, window |-> window]

Sections ==
    << "organization", "users", "api_keys", "app_keys", "roles",
       "service_accounts", "hosts", "metrics", "dashboards", "monitors",
       "events", "downtimes", "slos", "notebooks", "logs", "apm",
       "synthetics", "rum", "integrations", "security" >>

integrations ==
    << P("AWS Integration", "integrations", "/api/v1/integration/aws", FALSE, TRUE, 0),
       P("Azure Integration", "integrations", "/api/v1/integration/azure", FALSE, FALSE, 0),
       P("GCP Integration", "integrations", "/api/v1/integration/gcp", FALSE, FALSE, 0),
       P("Slack Integration", "integrations", "/api/v1/integration/slack", FALSE, FALSE, 0),
       P("PagerDuty Integration", "integrations", "/api/v1/integration/pagerduty", FALSE, FALSE, 0),
       P("Webhooks Integration", "integrations",
         "/api/v1/integration/webhooks/configuration/webhooks", FALSE, FALSE, 0) >>

Catalog ==
    << P("API Key Validation", "validate", "/api/v1/validate", TRUE, TRUE, 0),
       P("Organization Details", "organization", "/api/v1/org", TRUE, TRUE, 0),
       P("List Users", "users", "/api/v2/users", TRUE, TRUE, 0),
       P("List API Keys", "api_keys", "/api/v2/api_keys", TRUE, TRUE, 0),
       P("List Application Keys", "app_keys", "/api/v2/application_keys", TRUE, TRUE, 0),
       P("List Roles", "roles", "/api/v2/roles", TRUE, TRUE, 0),
       P("Service Accounts", "service_accounts", "/api/v2/service_accounts", TRUE, TRUE, 0),
       P("List Hosts", "hosts", "/api/v1/hosts", TRUE, TRUE, 0),
       P("List Metrics", "metrics", "/api/v1/metrics?from=", TRUE, TRUE, 3600),
       P("List Dashboards", "dashboards", "/api/v1/dashboard", TRUE, TRUE, 0),
       P("List Monitors", "monitors", "/api/v1/monitor", TRUE, TRUE, 0),
       P("Recent Events", "events", "/api/v1/events?start=", TRUE, TRUE, 86400),
       P("List Downtimes", "downtimes", "/api/v1/downtime", TRUE, TRUE, 0),
       P("List SLOs", "slos", "/api/v1/slo", TRUE, TRUE, 0),
       P("List Notebooks", "notebooks", "/api/v1/notebooks", TRUE, TRUE, 0),
       P("Log Indexes", "logs", "/api/v1/logs/config/indexes", TRUE, TRUE, 0),
       P("Log Pipelines", "logs", "/api/v1/logs/config/pipelines", TRUE, FALSE, 0),
       P("Services", "apm", "/api/v1/services", TRUE, TRUE, 0),
       P("Synthetic Tests", "synthetics", "/api/v1/synthetics/tests", TRUE, TRUE, 0),
       P("RUM Applications", "rum", "/api/v2/rum/applications", TRUE, TRUE, 0) >>
    \o integrations \o
    << P("Security Monitoring Rules", "security", "/api/v2/security_monitoring/rules", TRUE, TRUE, 0),
       P("Security Signals", "security", "/api/v2/security_monitoring/signals", TRUE, FALSE, 0) >>

ProbeNames == [i \in 1..Len(Catalog) |-> Catalog[i].name]

-----------------------------------------------------------------------------
(* What the remote end can answer to one request.                          *)
(*   kind "exc"  : requests raised (exc names the exception)               *)
(*   kind "http" : a response arrived: status code, and the body text,     *)
(*                 which is empty, not JSON ("malformed"), or JSON         *)

StatusCodes == {200, 401, 403, 404, 500}
Exceptions  == {"Timeout", "ConnectionError"}

Reply(kind, status, exc, text, json) ==
    [kind |-> kind, status |-> status, exc |-> exc, text |-> text, json |-> json]

Replies ==
    {Reply("exc", 0, e, "empty", NoneData) : e \in Exceptions}
    \cup {Reply("http", s, "none", "empty", NoneData) : s \in StatusCodes \ {200}}
    \cup {Reply("http", 200, "none", t, NoneData) : t \in {"empty", "malformed"}}
    \cup {Reply("http", 200, "none", "json", j) : j \in JsonValues}

Absent == "<absent>"

get_headers ==
    [api |-> API_KEY,
     content_type |-> "application/json",
     app |-> IF APP_KEY # "" THEN APP_KEY ELSE Absent]

\* accessible_lines without the description line
accessible_lines_nodesc(p) == <<print_success("ACCESSIBLE")>>

\* What test_endpoint prints on status 200, before it reads the body.
accessible_lines(p) ==
    <<print_success("ACCESSIBLE")>>
    \o (IF p.desc THEN <<print_info("description", 0)>> ELSE <<>>)

\* status_line with the 401 and 403 branches exchanged
status_line_swapped(code) ==
    CASE code = 401 -> print_error("FORBIDDEN", 403)
      [] code = 403 -> print_error("UNAUTHORIZED", 401)
      [] code = 404 -> print_warning("NOT FOUND", 404)
      [] OTHER      -> print_warning("Status", code)

\* The line test_endpoint prints on a status code other than 200.
status_line(code) ==
    CASE code = 403 -> print_error("FORBIDDEN", 403)
      [] code = 401 -> print_error("UNAUTHORIZED", 401)
      [] code = 404 -> print_warning("NOT FOUND", 404)
      [] OTHER      -> print_warning("Status", code)

\* The body of the try block of test_endpoint: the lines it prints, and either
\* the value it returns or the exception that leaves it.
try_block(p, reply) ==
    LET status(lines, ok, data) ==
            [lines |-> lines, exc |-> "none", ok |-> ok, data |-> data]
        raise(lines, e) ==
            [lines |-> lines, exc |-> e, ok |-> FALSE, data |-> NoneData]
        accessible == accessible_lines(p)
    IN  CASE p.method \notin {"GET", "POST"} -> raise(<<>>, "UnboundLocalError")
          [] reply.kind = "exc" -> raise(<<>>, reply.exc)
          [] reply.status = 200 ->
                CASE reply.text = "empty"     -> status(accessible, TRUE, EmptyDict)
                  [] reply.text = "malformed" -> raise(accessible, "JSONDecodeError")
                  [] OTHER                    -> status(accessible, TRUE, reply.json)
          [] OTHER -> status(<<status_line(reply.status)>>, FALSE, NoneData)

\* requests_sent with one retry after a transport exception
requests_sent_retry(p, reply) ==
    IF p.method \notin {"GET", "POST"} THEN 0
    ELSE IF reply.kind = "exc" THEN 2 ELSE 1

\* HTTP requests one call sends: requests.get is called once, outside any loop.
requests_sent(p, reply) ==
    IF p.method \in {"GET", "POST"} THEN 1 ELSE 0

\* caught for "except requests.RequestException" in place of "except Exception"
caught_requests_only(e) == e \in Exceptions

\* Which exceptions the except clause of test_endpoint catches.
caught(e) == TRUE

test_endpoint(p, reply) ==
    LET b == try_block(p, reply)
        base == [probe |-> p.name, status |-> reply.status, kind |-> reply.kind,
                 text |-> reply.text, body |-> reply.json, endpoint |-> p.endpoint,
                 headers |-> get_headers, sent |-> requests_sent(p, reply)]
    IN  IF b.exc = "none"
        THEN base @@ [ok |-> b.ok, data |-> b.data, lines |-> b.lines, raised |-> FALSE]
        ELSE IF caught(b.exc)
        THEN base @@ [ok |-> FALSE, data |-> NoneData,
                      lines |-> b.lines \o <<print_error("Error", 0)>>,
                      raised |-> FALSE]
        ELSE base @@ [ok |-> FALSE, data |-> NoneData, lines |-> b.lines,
                      raised |-> TRUE]

NoCall ==
    [probe |-> "", status |-> 0, kind |-> "none", text |-> "empty",
     body |-> NoneData, endpoint |-> "",
     headers |-> [api |-> "", content_type |-> "application/json", app |-> Absent],
     sent |-> 0, ok |-> FALSE, data |-> NoneData, lines |-> <<>>, raised |-> FALSE]

-----------------------------------------------------------------------------
(* The code of each reporter after its call of test_endpoint: the lines it *)
(* prints, and whether an exception leaves it (nothing in the program      *)
(* catches an exception outside test_endpoint).                            *)

Rep(lines, raised) == [lines |-> lines, raised |-> raised]
Skip  == Rep(<<>>, FALSE)
Raise == Rep(<<>>, TRUE)
Then(lines, rep) == Rep(lines \o rep.lines, rep.raised)

\* for x in v[:N]: print one line per item;  if len(v) > N: print the trailing
\* line.  bad: the item shapes on which the loop body raises.  more: "count"
\* (the trailing line carries len(v) - N), "nocount" (it carries no number),
\* "none" (the reporter has no trailing line).
first_items(v, N, bad, more) ==
    IF v.type # "list" THEN Raise
    ELSE IF v.len > 0 /\ v.item \in bad THEN Raise
    ELSE Rep([i \in 1..Min(v.len, N) |-> print_info("item", i)]
             \o (IF v.len > N /\ more = "count"
                   THEN <<print_info("and N more", v.len - N)>>
                 ELSE IF v.len > N /\ more = "nocount"
                   THEN <<print_info("and more", 0)>>
                 ELSE <<>>),
             FALSE)

\* x = data.get(key, []);  print "Found len(x)";  then the rest
found_then(data, N, bad, more) ==
    IF data.type # "dict" THEN Raise
    ELSE LET x == DictGet(data, EmptyList)
         IN  IF ~Sized(x) THEN Raise
             ELSE IF N = 0 THEN Rep(<<print_info("Found", x.len)>>, FALSE)
             ELSE Then(<<print_info("Found", x.len)>>, first_items(x, N, bad, more))

validate_summary(success, data) ==
    IF ~(success /\ Truthy(data)) THEN Skip
    ELSE IF data.type # "dict" THEN Raise
    ELSE Rep(<<print_info("Valid", 0)>>, FALSE)

enumerate_organization(success, data) ==
    IF ~(success /\ Truthy(data)) THEN Skip
    ELSE IF data.type # "dict" THEN Raise
    ELSE LET org == DictGet(data, EmptyDict)
         IN  IF org.type # "dict" THEN Raise
             ELSE Rep(<<print_info("Name", 0), print_info("Public ID", 0),
                        print_info("Created", 0)>>, FALSE)

enumerate_users(success, data) ==
    IF ~(success /\ Truthy(data)) THEN Skip
    ELSE found_then(data, 10, {"badattrs", "scalar"}, "count")

enumerate_api_keys(success, data) ==
    IF ~(success /\ Truthy(data)) THEN Skip
    ELSE found_then(data, 5, {"badattrs", "scalar"}, "none")

enumerate_app_keys(success, data) ==
    IF ~(success /\ Truthy(data)) THEN Skip
    ELSE found_then(data, 0, {}, "none")

enumerate_roles(success, data) ==
    IF ~(success /\ Truthy(data)) THEN Skip
    ELSE found_then(data, 5, {"badattrs", "scalar"}, "none")

enumerate_service_accounts(success, data) == Skip

\* The count printed is data.get('total_matching', len(hosts)): the default is
\* evaluated first, so len(hosts) must be defined.
enumerate_hosts(success, data) ==
    IF ~(success /\ Truthy(data)) THEN Skip
    ELSE found_then(data, 5, {"badattrs", "scalar"}, "nocount")

enumerate_metrics(success, data) ==
    IF ~(success /\ Truthy(data)) THEN Skip
    ELSE found_then(data, 10, {}, "count")

enumerate_dashboards(success, data) ==
    IF ~(success /\ Truthy(data)) THEN Skip
    ELSE found_then(data, 5, {"scalar"}, "count")

enumerate_monitors(success, data) ==
    IF ~(success /\ Truthy(data)) THEN Skip
    ELSE IF data.type # "list" THEN Skip
    ELSE Then(<<print_info("Found", data.len)>>,
              first_items(data, 5, {"scalar"}, "count"))

enumerate_events(success, data) ==
    IF ~(success /\ Truthy(data)) THEN Skip
    ELSE found_then(data, 0, {}, "none")

enumerate_downtimes(success, data) ==
    IF ~(success /\ Truthy(data)) THEN Skip
    ELSE IF data.type # "list" THEN Skip
    ELSE Rep(<<print_info("Found", data.len)>>, FALSE)

enumerate_slos(success, data) ==
    IF ~(success /\ Truthy(data)) THEN Skip
    ELSE found_then(data, 0, {}, "none")

enumerate_notebooks(success, data) ==
    IF ~(success /\ Truthy(data)) THEN Skip
    ELSE found_then(data, 0, {}, "none")

enumerate_logs(success, data) == Skip

enumerate_apm(success, data) == Skip

enumerate_synthetics(success, data) ==
    IF ~(success /\ Truthy(data)) THEN Skip
    ELSE found_then(data, 0, {}, "none")

enumerate_rum(success, data) == Skip

enumerate_integrations(success, data) == Skip

enumerate_security(success, data) == Skip

-----------------------------------------------------------------------------
(* main() *)

\* resolve_key with the environment's value taking precedence
resolve_key_env_first(arg, global) ==
    IF global # "" THEN global ELSE IF StrTruthy(arg) THEN arg ELSE global

\* if args.api_key: API_KEY = args.api_key  (global: the environment's value)
resolve_key(arg, global) == IF StrTruthy(arg) THEN arg ELSE global

\* key_missing with the check left out
key_missing_never(key) == FALSE

\* if not API_KEY: ... sys.exit(1)
key_missing(key) == key = ""

\* validation_failed with the result of validate_api_key ignored
validation_failed_never(success) == FALSE

\* if not validate_api_key(): ... sys.exit(1)
validation_failed(success) == ~success

Init ==
    /\ environ \in [DD_API_KEY : EnvApiKeys, DD_APP_KEY : EnvAppKeys]
    /\ argv \in [api_key : ArgApiKeys, app_key : ArgAppKeys]
    /\ API_KEY = environ.DD_API_KEY
    /\ APP_KEY = environ.DD_APP_KEY
    /\ pc = "main"
    /\ next = 1
    /\ invoked = <<>>
    /\ reqLog = <<>>
    /\ lastCall = NoCall
    /\ out = <<>>
    /\ valid = "unknown"
    /\ exitCode = -1
    /\ crashed = FALSE

\* sys.exit(code)
Exit(code) ==
    /\ pc' = "exited"
    /\ exitCode' = code
    /\ crashed' = FALSE

\* an exception nothing catches: traceback, exit status 1
Crash ==
    /\ pc' = "exited"
    /\ exitCode' = 1
    /\ crashed' = TRUE

\* main() from the argument parsing to the first probe
Main ==
    /\ pc = "main"
    /\ API_KEY' = resolve_key(argv.api_key, API_KEY)
    /\ APP_KEY' = resolve_key(argv.app_key, APP_KEY)
    /\ IF key_missing(API_KEY')
       THEN /\ Exit(1)
            /\ out' = <<Line("print", "Error: API Key is required", 0)>>
       ELSE /\ out' = <<print_info("Using API endpoint", 0)>>
                      \o (IF APP_KEY' = ""
                          THEN <<print_warning("No Application Key provided", 0),
                                 print_warning("API keys can only submit data", 0)>>
                          ELSE <<>>)
            /\ pc' = "run"
            /\ UNCHANGED <<exitCode, crashed>>
    /\ UNCHANGED <<environ, argv, next, invoked, reqLog, lastCall, valid>>

\* What test_endpoint leaves behind, whoever called it.
Called(call) ==
    /\ lastCall' = call
    /\ reqLog' = reqLog \o [i \in 1..call.sent |-> call.probe]

\* The caller goes on to the next probe; after the last one main() prints the
\* completion banner and returns.
Continue(lines) ==
    IF next = Len(Catalog)
    THEN /\ out' = lines \o <<print_header("ENUMERATION COMPLETE"),
                              print_info("Review the results", 0),
                              print_info("Legend", 0)>>
         /\ Exit(0)
         /\ UNCHANGED next
    ELSE /\ out' = lines
         /\ next' = next + 1
         /\ UNCHANGED <<pc, exitCode, crashed>>

ValidateApiKey ==
    /\ pc = "run"
    /\ Catalog[next].section = "validate"
    /\ \E reply \in Replies :
         LET call == test_endpoint(Catalog[next], reply)
             rep  == validate_summary(call.ok, call.data)
         IN  /\ Called(call)
             /\ IF call.raised
                THEN /\ Crash
                     /\ out' = <<>>
                     /\ UNCHANGED <<next, valid>>
                ELSE /\ valid' = IF call.ok THEN "yes" ELSE "no"
                     /\ IF rep.raised
                        THEN /\ Crash
                             /\ out' = rep.lines
                             /\ UNCHANGED next
                        ELSE IF validation_failed(call.ok)
                        THEN /\ Exit(1)
                             /\ out' = rep.lines
                                       \o <<print_error("API Key validation failed", 0)>>
                             /\ UNCHANGED next
                        ELSE Continue(rep.lines)
    /\ UNCHANGED <<environ, argv, API_KEY, APP_KEY, invoked>>

\* The code the section's reporter runs on the result of its probe.
reporter_body(section, success, data) ==
    CASE section = "organization"     -> enumerate_organization(success, data)
      [] section = "users"            -> enumerate_users(success, data)
      [] section = "api_keys"         -> enumerate_api_keys(success, data)
      [] section = "app_keys"         -> enumerate_app_keys(success, data)
      [] section = "roles"            -> enumerate_roles(success, data)
      [] section = "service_accounts" -> enumerate_service_accounts(success, data)
      [] section = "hosts"            -> enumerate_hosts(success, data)
      [] section = "metrics"          -> enumerate_metrics(success, data)
      [] section = "dashboards"       -> enumerate_dashboards(success, data)
      [] section = "monitors"         -> enumerate_monitors(success, data)
      [] section = "events"           -> enumerate_events(success, data)
      [] section = "downtimes"        -> enumerate_downtimes(success, data)
      [] section = "slos"             -> enumerate_slos(success, data)
      [] section = "notebooks"        -> enumerate_notebooks(success, data)
      [] section = "logs"             -> enumerate_logs(success, data)
      [] section = "apm"              -> enumerate_apm(success, data)
      [] section = "synthetics"       -> enumerate_synthetics(success, data)
      [] section = "rum"              -> enumerate_rum(success, data)
      [] section = "integrations"     -> enumerate_integrations(success, data)
      [] section = "security"         -> enumerate_security(success, data)

\* main() is about to issue a probe of the section.
At(section) == pc = "run" /\ Catalog[next].section = section

\* One probe of the section's reporter and the reporter's code after it.
Reporter(section) ==
    /\ invoked' = IF Catalog[next].first THEN Append(invoked, section) ELSE invoked
    /\ \E reply \in Replies :
         LET call == test_endpoint(Catalog[next], reply)
             rep  == reporter_body(section, call.ok, call.data)
         IN  /\ Called(call)
             /\ IF call.raised
                THEN /\ Crash
                     /\ out' = <<>>
                     /\ UNCHANGED next
                ELSE IF rep.raised
                THEN /\ Crash
                     /\ out' = rep.lines
                     /\ UNCHANGED next
                ELSE Continue(rep.lines)
    /\ UNCHANGED <<environ, argv, API_KEY, APP_KEY, valid>>

EnumerateOrganization ==
    /\ At("organization")
    /\ Reporter("organization")

EnumerateUsers ==
    /\ At("users")
    /\ Reporter("users")

EnumerateApiKeys ==
    /\ At("api_keys")
    /\ Reporter("api_keys")

EnumerateAppKeys ==
    /\ At("app_keys")
    /\ Reporter("app_keys")

EnumerateRoles ==
    /\ At("roles")
    /\ Reporter("roles")

EnumerateServiceAccounts ==
    /\ At("service_accounts")
    /\ Reporter("service_accounts")

EnumerateHosts ==
    /\ At("hosts")
    /\ Reporter("hosts")

EnumerateMetrics ==
    /\ At("metrics")
    /\ Reporter("metrics")

EnumerateDashboards ==
    /\ At("dashboards")
    /\ Reporter("dashboards")

EnumerateMonitors ==
    /\ At("monitors")
    /\ Reporter("monitors")

EnumerateEvents ==
    /\ At("events")
    /\ Reporter("events")

EnumerateDowntimes ==
    /\ At("downtimes")
    /\ Reporter("downtimes")

EnumerateSlos ==
    /\ At("slos")
    /\ Reporter("slos")

EnumerateNotebooks ==
    /\ At("notebooks")
    /\ Reporter("notebooks")

EnumerateLogs ==
    /\ At("logs")
    /\ Reporter("logs")

EnumerateApm ==
    /\ At("apm")
    /\ Reporter("apm")

EnumerateSynthetics ==
    /\ At("synthetics")
    /\ Reporter("synthetics")

EnumerateRum ==
    /\ At("rum")
    /\ Reporter("rum")

EnumerateIntegrations ==
    /\ At("integrations")
    /\ Reporter("integrations")

EnumerateSecurity ==
    /\ At("security")
    /\ Reporter("security")


Next ==
    \/ Main
    \/ ValidateApiKey
    \/ EnumerateOrganization
    \/ EnumerateUsers
    \/ EnumerateApiKeys
    \/ EnumerateAppKeys
    \/ EnumerateRoles
    \/ EnumerateServiceAccounts
    \/ EnumerateHosts
    \/ EnumerateMetrics
    \/ EnumerateDashboards
    \/ EnumerateMonitors
    \/ EnumerateEvents
    \/ EnumerateDowntimes
    \/ EnumerateSlos
    \/ EnumerateNotebooks
    \/ EnumerateLogs
    \/ EnumerateApm
    \/ EnumerateSynthetics
    \/ EnumerateRum
    \/ EnumerateIntegrations
    \/ EnumerateSecurity

Spec == Init /\ [][Next]_vars

-----------------------------------------------------------------------------
(* Properties *)

ValidationProbe == Catalog[1].name
LastProbe       == Catalog[Len(Catalog)].name
ProbeOf(name)   == CHOOSE p \in {Catalog[i] : i \in 1..Len(Catalog)} : p.name = name
IndexOf(name)   == CHOOSE i \in 1..Len(Catalog) : Catalog[i].name = name

HasCalled == lastCall.probe # ""

\* The last call met a transport failure: requests raised, or the body of a
\* 200 response did not parse.
TransportFailed ==
    /\ HasCalled
    /\ \/ lastCall.kind = "exc"
       \/ lastCall.kind = "http" /\ lastCall.status = 200 /\ lastCall.text = "malformed"

ErrorLines(lines) ==
    Cardinality({i \in DOMAIN lines : lines[i] = print_error("Error", 0)})

\* The run went on after the last call: the caller moved to the next probe of
\* the catalog, or, after the last probe, main() returned with status 0.
WentOn ==
    IF lastCall.probe = LastProbe
    THEN pc = "exited" /\ exitCode = 0 /\ ~crashed
    ELSE pc = "run" /\ next = IndexOf(lastCall.probe) + 1

\* The run stopped after the last call by sys.exit(1).
Halted == pc = "exited" /\ exitCode = 1 /\ ~crashed

\* C1: when the validation probe is not accessible the program exits with
\* status 1, no section reporter is entered and the validation request is
\* the only request of the run; a reporter runs only after a validation
\* that succeeded.
C1_ValidationFailureHalts ==
    /\ (valid = "no") =>
          /\ Halted
          /\ invoked = <<>>
          /\ reqLog = <<ValidationProbe>>
    /\ (HasCalled /\ lastCall.probe = ValidationProbe
          /\ (lastCall.kind = "exc" \/ lastCall.status # 200)) => valid = "no"
    /\ (invoked # <<>>) => valid = "yes"

C1_Witness ==
    /\ valid = "no"
    /\ lastCall.probe = ValidationProbe
    /\ lastCall.status = 403
    /\ pc = "exited"

\* C2: once a run whose validation succeeded (validate_api_key returned True
\* and main() went on to the first section) has ended, every section reporter
\* has been entered exactly once, in the order of Sections.
C2_AllReportersRun ==
    (pc = "exited" /\ valid = "yes" /\ Len(reqLog) > 1) => invoked = Sections

\* C3: with no API key on the command line and none in the environment the
\* program exits with status 1 without calling test_endpoint.
C3_NoKeyNoNetwork ==
    (~StrTruthy(argv.api_key) /\ environ.DD_API_KEY = "" /\ pc # "main") =>
        /\ Halted
        /\ reqLog = <<>>
        /\ lastCall = NoCall
        /\ invoked = <<>>

C3_Witness ==
    /\ argv.api_key = NoArg
    /\ environ.DD_API_KEY = ""
    /\ pc = "exited"
    /\ exitCode = 1

\* C4 (as amended): a transport failure never leaves test_endpoint as an
\* exception: the call returns (False, None) and prints exactly one error
\* line; after a section probe the run goes on with the next probe, after
\* the validation probe the program exits with status 1.
C4_TransportErrorIsolated ==
    TransportFailed =>
        /\ ~lastCall.raised
        /\ ~lastCall.ok
        /\ lastCall.data = NoneData
        /\ ErrorLines(lastCall.lines) = 1
        /\ lastCall.lines[Len(lastCall.lines)] = print_error("Error", 0)
        /\ IF lastCall.probe = ValidationProbe THEN Halted ELSE WentOn

C4_Witness ==
    /\ TransportFailed
    /\ lastCall.kind = "exc"
    /\ lastCall.probe = "List Users"
    /\ pc = "run"

\* C4 as stated: after a transport failure of any probe the run goes on
\* with the next probe.
C4_RunAlwaysContinues ==
    TransportFailed =>
        /\ ~lastCall.raised
        /\ ~lastCall.ok
        /\ lastCall.data = NoneData
        /\ ErrorLines(lastCall.lines) = 1
        /\ WentOn

\* C5 (as amended): a response is classified by its status code, except that
\* a 200 response whose body is not JSON gives (False, None) after the
\* ACCESSIBLE line and an error line.  200 with an empty body returns
\* (True, {}), 200 with a JSON body returns (True, the parsed body); 401,
\* 403, 404 and any other code print their own line, carrying the literal
\* code, and return (False, None).  A result that is not accessible does not
\* stop a section probe's run; on the validation probe it ends the run with
\* status 1.
C5_StatusClassification ==
    (HasCalled /\ lastCall.kind = "http") =>
        LET c == lastCall
            failed(line) == ~c.ok /\ c.data = NoneData /\ c.lines = <<line>>
        IN  /\ (c.status = 200 /\ c.text = "empty") =>
                   c.ok /\ c.data = EmptyDict /\ Head(c.lines) = print_success("ACCESSIBLE")
            /\ (c.status = 200 /\ c.text = "json") =>
                   c.ok /\ c.data = c.body /\ Head(c.lines) = print_success("ACCESSIBLE")
            /\ (c.status = 200 /\ c.text = "malformed") =>
                   /\ ~c.ok
                   /\ c.data = NoneData
                   /\ Head(c.lines) = print_success("ACCESSIBLE")
                   /\ c.lines[Len(c.lines)] = print_error("Error", 0)
            /\ (c.status = 401) => failed(print_error("UNAUTHORIZED", 401))
            /\ (c.status = 403) => failed(print_error("FORBIDDEN", 403))
            /\ (c.status = 404) => failed(print_warning("NOT FOUND", 404))
            /\ (c.status \notin {200, 401, 403, 404}) =>
                   failed(print_warning("Status", c.status))
            /\ ~c.ok => IF c.probe = ValidationProbe THEN Halted ELSE WentOn

C5_Witness ==
    /\ HasCalled
    /\ lastCall.status = 403
    /\ lastCall.probe = "List Dashboards"
    /\ pc = "run"
    /\ next = IndexOf("List Dashboards") + 1

\* C5 as stated: the status code alone decides: every 200 response is
\* accessible, every other one returns (False, None), and a 403 never stops
\* the run.
C5_ByStatusAlone ==
    (HasCalled /\ lastCall.kind = "http") =>
        /\ (lastCall.status = 200) => lastCall.ok
        /\ (lastCall.status # 200) => ~lastCall.ok /\ lastCall.data = NoneData
        /\ (lastCall.status = 403) => WentOn

ListingProbes ==
    {"List Users", "List API Keys", "List Roles", "List Hosts", "List Metrics",
     "List Dashboards", "List Monitors"}

ListingLimit(name) == IF name \in {"List Users", "List Metrics"} THEN 10 ELSE 5

ItemLines(lines) ==
    Cardinality({i \in DOMAIN lines : lines[i].k = "item"})

MoreLines(lines) ==
    {lines[i] : i \in {j \in DOMAIN lines : lines[j].k \in {"and N more", "and more"}}}

\* C6: a listing reporter that got a collection of L items prints min(L, N)
\* items and, exactly when L > N, a trailing line carrying L - N.
C6_TruncationSuffix ==
    \A name \in ListingProbes :
        LET d  == lastCall.data
            ok == /\ lastCall.probe = name
                  /\ lastCall.ok
                  /\ ~crashed
                  /\ d.type = (IF name = "List Monitors" THEN "list" ELSE "dict")
            c  == IF name = "List Monitors" THEN d ELSE DictGet(d, EmptyList)
            N  == ListingLimit(name)
        IN  ok => /\ ItemLines(out) = Min(c.len, N)
                  /\ MoreLines(out) =
                        (IF c.len > N THEN {print_info("and N more", c.len - N)} ELSE {})

\* C7: no probe is requested twice; the requests follow the catalog's order,
\* one per probe reached; a run that ends with status 0 has requested every
\* probe of the catalog exactly once.
C7_NoRetries ==
    /\ \A i, j \in DOMAIN reqLog : reqLog[i] = reqLog[j] => i = j
    /\ Len(reqLog) <= Len(Catalog)
    /\ reqLog = SubSeq(ProbeNames, 1, Len(reqLog))
    /\ lastCall.sent <= 1
    /\ (pc = "run") => Len(reqLog) = next - 1
    /\ (pc = "exited" /\ exitCode = 0) => reqLog = ProbeNames

C7_Witness ==
    /\ pc = "exited"
    /\ exitCode = 0
    /\ reqLog = ProbeNames
    /\ lastCall.kind = "exc"

\* C8 (as amended): each key is the positional argument when that argument
\* is given and not empty, and otherwise the environment variable's value;
\* the pair does not change afterwards; every probe sends the API key in
\* its headers, and the application key when it is not empty.
C8_CredentialResolution ==
    (pc # "main") =>
        /\ API_KEY = (IF argv.api_key \notin {NoArg, ""}
                        THEN argv.api_key ELSE environ.DD_API_KEY)
        /\ APP_KEY = (IF argv.app_key \notin {NoArg, ""}
                        THEN argv.app_key ELSE environ.DD_APP_KEY)
        /\ HasCalled =>
              /\ lastCall.headers.api = API_KEY
              /\ lastCall.headers.app = (IF APP_KEY = "" THEN Absent ELSE APP_KEY)

C8_Witness ==
    /\ argv.api_key = "argapi"
    /\ environ.DD_API_KEY = "envapi"
    /\ argv.app_key = NoArg
    /\ environ.DD_APP_KEY = "envapp"
    /\ HasCalled
    /\ lastCall.headers = [api |-> "argapi", content_type |-> "application/json",
                           app |-> "envapp"]

\* C8 as stated: a positional argument that is given wins over the
\* environment variable.
C8_ArgumentAlwaysWins ==
    (pc # "main") =>
        /\ (argv.api_key # NoArg) => API_KEY = argv.api_key
        /\ (argv.app_key # NoArg) => APP_KEY = argv.app_key

\* C9: a run ends with status 0 or 1: 1 exactly when no API key is resolved
\* or the validation probe is not accessible, 0 whenever it is accessible.
C9_ExitStatus ==
    (pc = "exited") =>
        /\ exitCode \in {0, 1}
        /\ (exitCode = 1) <=> (API_KEY = "" \/ valid # "yes")
        /\ (valid = "yes") => exitCode = 0

\* C10 (as amended): test_endpoint prints exactly one line for a response
\* other than 200 and for an exception raised by the request; for a 200
\* response it prints the ACCESSIBLE line, then the description line when
\* the probe has a description, then an error line when the body is not
\* JSON.
C10_LinesPerProbe ==
    HasCalled =>
        LET c == lastCall
            p == ProbeOf(c.probe)
        IN  IF c.kind = "http" /\ c.status = 200
            THEN Len(c.lines) = 1 + (IF p.desc THEN 1 ELSE 0)
                                  + (IF c.text = "malformed" THEN 1 ELSE 0)
            ELSE Len(c.lines) = 1

C10_Witness ==
    /\ HasCalled
    /\ lastCall.status = 200
    /\ lastCall.text = "json"
    /\ ProbeOf(lastCall.probe).desc
    /\ Len(lastCall.lines) = 2

\* C10 as stated: every call of test_endpoint prints exactly one line.
C10_OneLinePerProbe ==
    HasCalled => Len(lastCall.lines) = 1

====
